---- MODULE Spec2Model ----
(***************************************************************************)
(* Model of taiga_contrib_ldap_auth_ext/connector.py: one call of          *)
(* login(username_or_email, password) against a directory server (Spec),   *)
(* and several calls in progress at once (SpecConc).                       *)
(*                                                                         *)
(* Text is a sequence of one-character strings, bytes are a sequence of    *)
(* byte codes.  The directory server and the ldap3 client objects          *)
(* (Server, Connection) are the environment of the module: the model keeps *)
(* what login hands to them and lets the directory decide every bind and   *)
(* search.                                                                 *)
(***************************************************************************)
EXTENDS Integers, Sequences, FiniteSets, TLC

\* -------------------------------------------------------------------------
\* Bounds of the model
\* -------------------------------------------------------------------------

\* longest username_or_email the caller passes, but for the one longer
\* input Injection
MaxLen == 2

\* most items that are no entries (search references and the like) a
\* search returns
MaxRefs == 1

\* -------------------------------------------------------------------------
\* Python values
\* -------------------------------------------------------------------------

None == [type |-> "NoneType"]

IsNone(v) == v.type = "NoneType"

\* ldap3 constants imported at connector.py:16
AUTO_BIND_NO_TLS == "NO_TLS"

AUTO_BIND_TLS_BEFORE_BIND == "TLS_BEFORE_BIND"

ANONYMOUS == "ANONYMOUS"

SIMPLE == "SIMPLE"

\* -------------------------------------------------------------------------
\* Text, bytes and the conversions between them
\* -------------------------------------------------------------------------

Chars == {"a", "b", "*", "(", ")", "\\", "=", "2", "5", "8", "9", "c", "p", "q",
          "A", "B", "C", "S", "N"}

\* the UTF-8 code of each character of the model (all of them ASCII)
CodeOf ==
  [ch \in Chars |->
     CASE ch = "a" -> 97 [] ch = "b" -> 98 [] ch = "c" -> 99
       [] ch = "p" -> 112 [] ch = "q" -> 113
       [] ch = "*" -> 42 [] ch = "(" -> 40 [] ch = ")" -> 41
       [] ch = "\\" -> 92 [] ch = "=" -> 61
       [] ch = "2" -> 50 [] ch = "5" -> 53 [] ch = "8" -> 56 [] ch = "9" -> 57
       [] ch = "A" -> 65 [] ch = "B" -> 66 [] ch = "C" -> 67
       [] ch = "S" -> 83 [] ch = "N" -> 78]

RECURSIVE Encode(_)
\* str.encode('utf-8'): bytes(text, 'utf-8')
Encode(text) ==
  IF text = <<>> THEN <<>> ELSE <<CodeOf[Head(text)]>> \o Encode(Tail(text))

\* whether bytes.decode('utf-8') succeeds
Decodable(bytes) ==
  \A i \in 1..Len(bytes) : \E ch \in Chars : CodeOf[ch] = bytes[i]

RECURSIVE Decode(_)
\* bytes.decode('utf-8') of decodable bytes
Decode(bytes) ==
  IF bytes = <<>> THEN <<>>
  ELSE <<CHOOSE ch \in Chars : CodeOf[ch] = Head(bytes)>> \o Decode(Tail(bytes))

\* ldap3.utils.conv.escape_filter_chars, one character
EscapeChar(ch) ==
  CASE ch = "\\" -> <<"\\", "5", "c">>
    [] ch = "*" -> <<"\\", "2", "a">>
    [] ch = "(" -> <<"\\", "2", "8">>
    [] ch = ")" -> <<"\\", "2", "9">>
    [] OTHER -> <<ch>>

\* the input embedded in the filter as typed
escape_filter_chars_Raw(text) == text

RECURSIVE escape_filter_chars(_)
\* ldap3.utils.conv.escape_filter_chars (RFC 4515 escaping)
escape_filter_chars(text) ==
  IF text = <<>> THEN <<>>
  ELSE EscapeChar(Head(text)) \o escape_filter_chars(Tail(text))

\* -------------------------------------------------------------------------
\* Module configuration (connector.py:36-50), read once and never written
\* -------------------------------------------------------------------------

USERNAME_ATTRIBUTE == "uid"

EMAIL_ATTRIBUTE == "mail"

FULL_NAME_ATTRIBUTE == "displayName"

\* the placeholder of a templated LDAP_BIND_DN, one token of the DN text
Placeholder == "<username>"

\* the settings the model runs login under: LDAP_BIND_DN empty (anonymous),
\* a service DN with the right or a wrong LDAP_BIND_PASSWORD, or a template;
\* LDAP_START_TLS off or on; LDAP_SEARCH_FILTER_ADDITIONAL empty or a clause
Settings ==
  { [BIND_DN |-> b.dn, BIND_PASSWORD |-> b.pw, START_TLS |-> t,
     SEARCH_FILTER_ADDITIONAL |-> f] :
      b \in { [dn |-> <<>>, pw |-> <<>>],
              [dn |-> <<"c", "=", "S">>, pw |-> <<"q">>],
              [dn |-> <<"c", "=", "S">>, pw |-> <<"p">>],
              [dn |-> <<"a", "=", Placeholder>>, pw |-> <<>>] },
      t \in BOOLEAN,
      f \in { <<>>, <<"(", "objectClass", "=", "p", ")">> } }

\* -------------------------------------------------------------------------
\* The directory server (environment)
\* -------------------------------------------------------------------------

MkEntry(dn, uid, mail, name, pw) ==
  [dn |-> dn,
   raw_attributes |-> ("uid" :> uid @@ "mail" :> mail @@ "displayName" :> name
                       @@ "objectClass" :> <<Encode(<<"p">>)>>),
   pw |-> pw]

EntryA ==
  MkEntry(<<"A">>, <<Encode(<<"a">>)>>, <<Encode(<<"b">>)>>,
          <<Encode(<<"A", "a">>)>>, <<"p">>)

\* two mail values, and a password that holds a filter metacharacter
EntryB ==
  MkEntry(<<"B">>, <<Encode(<<"b">>)>>, <<Encode(<<"b", "b">>), Encode(<<"b">>)>>,
          <<Encode(<<"B">>)>>, <<"*">>)

\* an entry whose username is a literal star
EntryS ==
  MkEntry(<<"S">>, <<Encode(<<"*">>)>>, <<Encode(<<"a", "*">>)>>,
          <<Encode(<<"S">>)>>, <<"p">>)

\* the mail attribute is returned with no value
EntryEmptyMail ==
  MkEntry(<<"N">>, <<Encode(<<"a">>)>>, <<>>, <<Encode(<<"N">>)>>, <<"p">>)

\* the mail attribute has one value, the empty string
EntryBlankMail ==
  MkEntry(<<"N">>, <<Encode(<<"a">>)>>, << <<>> >>, <<Encode(<<"N">>)>>, <<"p">>)

\* the displayName attribute is not returned at all
EntryNoName ==
  [dn |-> <<"N">>,
   raw_attributes |-> ("uid" :> <<Encode(<<"a">>)>> @@ "mail" :> <<Encode(<<"b">>)>>
                       @@ "objectClass" :> <<Encode(<<"p">>)>>),
   pw |-> <<"p">>]

\* the displayName value is not UTF-8 (a Latin-1 byte 0xff)
EntryLatin1 ==
  MkEntry(<<"C">>, <<Encode(<<"a">>)>>, <<Encode(<<"b">>)>>, << <<65, 255>> >>,
          <<"p">>)

\* an entry of another object class
EntryGroup ==
  [dn |-> <<"C">>,
   raw_attributes |-> ("uid" :> <<Encode(<<"a">>)>> @@ "mail" :> <<Encode(<<"c">>)>>
                       @@ "displayName" :> <<Encode(<<"C">>)>>
                       @@ "objectClass" :> <<Encode(<<"q">>)>>),
   pw |-> <<"p">>]

\* the directories login is run against, each in the server's result order
Directories ==
  { <<>>, <<EntryA>>, <<EntryB>>, <<EntryA, EntryB>>, <<EntryS, EntryA>>,
    <<EntryEmptyMail>>, <<EntryBlankMail>>, <<EntryNoName>>, <<EntryLatin1>>, <<EntryA, EntryGroup>> }

\* the service account the fixed LDAP_BIND_DN names, and its password
ServiceDn == <<"c", "=", "S">>

ServicePw == <<"q">>

\* a simple bind is accepted for an account's DN with its password; ldap3
\* refuses a simple bind without user or password before sending it
SimpleBindAccepted(dir, user, pw) ==
  /\ user # <<>>
  /\ pw # <<>>
  /\ \/ user = ServiceDn /\ pw = ServicePw
     \/ \E i \in 1..Len(dir) : dir[i].dn = user /\ dir[i].pw = pw

\* the bind of a Connection(...) with auto_bind: by mechanism
BindAccepted(dir, auth) ==
  IF auth.authentication = ANONYMOUS THEN TRUE
  ELSE /\ ~IsNone(auth.user)
       /\ ~IsNone(auth.password)
       /\ SimpleBindAccepted(dir, auth.user.text, auth.password.text)

\* -------------------------------------------------------------------------
\* The directory's evaluation of a search filter (RFC 4515)
\* -------------------------------------------------------------------------

\* the wildcard of a substring or presence assertion, as a pattern element
STAR == "<any>"

\* the character an escape \xx in an assertion value stands for
Unescaped(h1, h2) ==
  CASE h1 = "5" /\ h2 = "c" -> "\\"
    [] h1 = "2" /\ h2 = "a" -> "*"
    [] h1 = "2" /\ h2 = "8" -> "("
    [] h1 = "2" /\ h2 = "9" -> ")"
    [] OTHER -> ""

RECURSIVE ParseValue(_, _)
\* the assertion value that starts at f[i] and ends before the next ")":
\* [ok, pat (characters and STARs), i (the place of that ")")]
ParseValue(f, i) ==
  IF i > Len(f) \/ f[i] = "(" THEN [ok |-> FALSE, pat |-> <<>>, i |-> i]
  ELSE IF f[i] = ")" THEN [ok |-> TRUE, pat |-> <<>>, i |-> i]
  ELSE IF f[i] = "\\" THEN
    IF i + 2 > Len(f) \/ Unescaped(f[i + 1], f[i + 2]) = ""
    THEN [ok |-> FALSE, pat |-> <<>>, i |-> i]
    ELSE LET r == ParseValue(f, i + 3)
         IN  [r EXCEPT !.pat = <<Unescaped(f[i + 1], f[i + 2])>> \o r.pat]
  ELSE LET r == ParseValue(f, i + 1)
       IN  [r EXCEPT !.pat = <<IF f[i] = "*" THEN STAR ELSE f[i]>> \o r.pat]

RECURSIVE GlobMatch(_, _)
\* whether the text s matches the pattern pat
GlobMatch(pat, s) ==
  IF pat = <<>> THEN s = <<>>
  ELSE IF Head(pat) = STAR
    THEN GlobMatch(Tail(pat), s) \/ (s # <<>> /\ GlobMatch(pat, Tail(s)))
  ELSE s # <<>> /\ Head(s) = Head(pat) /\ GlobMatch(Tail(pat), Tail(s))

\* whether some value of the entry's attribute matches the pattern
AttrMatches(e, attr, pat) ==
  /\ attr \in DOMAIN e.raw_attributes
  /\ \E k \in 1..Len(e.raw_attributes[attr]) :
       /\ Decodable(e.raw_attributes[attr][k])
       /\ GlobMatch(pat, Decode(e.raw_attributes[attr][k]))

RECURSIVE EvalFilter(_, _, _)
RECURSIVE EvalList(_, _, _, _)

\* the filter that starts at f[i], on entry e: [ok, v, i (the place after it)]
EvalFilter(f, i, e) ==
  IF i + 1 > Len(f) \/ f[i] # "(" THEN [ok |-> FALSE, v |-> FALSE, i |-> i]
  ELSE IF f[i + 1] \in {"&", "|"} THEN EvalList(f, i + 2, e, f[i + 1] = "&")
  ELSE IF f[i + 1] = "!" THEN
    LET r == EvalFilter(f, i + 2, e)
    IN  IF r.ok /\ r.i <= Len(f) /\ f[r.i] = ")"
        THEN [ok |-> TRUE, v |-> ~r.v, i |-> r.i + 1]
        ELSE [ok |-> FALSE, v |-> FALSE, i |-> i]
  ELSE IF i + 2 > Len(f) \/ f[i + 1] \in {"(", ")", "="} \/ f[i + 2] # "="
    THEN [ok |-> FALSE, v |-> FALSE, i |-> i]
  ELSE LET r == ParseValue(f, i + 3)
       IN  IF r.ok
           THEN [ok |-> TRUE, v |-> AttrMatches(e, f[i + 1], r.pat), i |-> r.i + 1]
           ELSE [ok |-> FALSE, v |-> FALSE, i |-> i]

\* the filters up to the ")" that closes an "&" (all) or "|" (any) list
EvalList(f, i, e, all) ==
  IF i > Len(f) THEN [ok |-> FALSE, v |-> FALSE, i |-> i]
  ELSE IF f[i] = ")" THEN [ok |-> TRUE, v |-> all, i |-> i + 1]
  ELSE LET r == EvalFilter(f, i, e)
       IN  IF ~r.ok THEN r
           ELSE LET rest == EvalList(f, r.i, e, all)
                IN  [rest EXCEPT !.v = IF all THEN r.v /\ rest.v ELSE r.v \/ rest.v]

\* a filter is well formed when it is one filter and nothing else
FilterOk(f) ==
  LET r == EvalFilter(f, 1, EntryA) IN r.ok /\ r.i = Len(f) + 1

FilterMatches(f, e) == EvalFilter(f, 1, e).v

RECURSIVE Matching(_, _)
\* the entries of the directory the filter matches, in the server's order
Matching(dir, f) ==
  IF dir = <<>> THEN <<>>
  ELSE (IF FilterMatches(f, Head(dir)) THEN <<Head(dir)>> ELSE <<>>)
       \o Matching(Tail(dir), f)

\* -------------------------------------------------------------------------
\* One call of login
\* -------------------------------------------------------------------------

VARIABLES
  cfg,                          \* the module's settings (connector.py:36-50)
  dir,                          \* the directory's entries
  username_or_email, password,  \* the arguments of login
  pc,                           \* the place of the call in login
  server,                       \* login's local server
  username_or_email_sanitized,  \* login's local of that name
  auto_bind,                    \* login's local auto_bind
  c,                            \* login's local c, the search Connection
  search_filter,                \* login's local search_filter
  identity,                     \* login's locals (username, email, full_name)
  verification,                 \* the Connection built at connector.py:160
  result,                       \* how the call ended: a return or a raise
  ops,                          \* the operations sent to the directory, in order
  fault,                        \* the stage at which the transport failed, if any
  parked                        \* the locals of the other calls in progress

vars ==
  <<cfg, dir, username_or_email, password, pc, server,
    username_or_email_sanitized, auto_bind, c, search_filter, identity,
    verification, result, ops, fault, parked>>

\* the characters of the caller's input
InputChars == {"a", "b", "*", "(", ")", "\\"}

RECURSIVE TextsUpTo(_)
TextsUpTo(n) ==
  IF n = 0 THEN {<<>>}
  ELSE LET shorter == TextsUpTo(n - 1)
       IN  shorter \cup {t \o <<ch>> : t \in shorter, ch \in InputChars}

\* the input ')(uid=*', the attribute name one token as it is in the filter
Injection == <<")", "(", USERNAME_ATTRIBUTE, "=", "*">>

Usernames == TextsUpTo(MaxLen) \cup {Injection}

Passwords == {<<>>, <<"p">>, <<"*">>}

Str(text) == [type |-> "str", text |-> text]

Pending == [kind |-> "pending", exc |-> "", msg |-> "", value |-> <<>>]

Raise(exc, msg) == [kind |-> "raise", exc |-> exc, msg |-> msg, value |-> <<>>]

Return(value) == [kind |-> "return", exc |-> "", msg |-> "", value |-> value]

LDAPConnectionError == "LDAPConnectionError"

LDAPUserLoginError == "LDAPUserLoginError"

\* SERVER.lower().startswith("ldaps://"), for the default SERVER "localhost"
use_ssl == FALSE

\* the except clause of _get_server lost: a Server that could not be built
\* goes unnoticed
_get_server_Swallowed(built) == [raised |-> FALSE, value |-> None]

\* _get_server: the Server it builds stays in its local; nothing is returned
_get_server(built) ==
  IF built
  THEN LET local_server == [type |-> "Server", use_ssl |-> use_ssl]
       IN  [raised |-> FALSE, value |-> None]
  ELSE [raised |-> TRUE, value |-> None]

RECURSIVE Replace(_, _, _)
\* str.replace(old, new) where old is one token of the text
Replace(text, old, new) ==
  IF text = <<>> THEN <<>>
  ELSE (IF Head(text) = old THEN new ELSE <<Head(text)>>)
       \o Replace(Tail(text), old, new)

Contains(text, token) == \E i \in 1..Len(text) : text[i] = token

\* the fixed-DN branch taking the caller's password as the templated one
\* was meant to
_get_auth_details_CallerPassword(username_sanitized) ==
  IF cfg.BIND_DN # <<>> /\ Contains(cfg.BIND_DN, Placeholder)
  THEN [raised |-> TRUE,
        user |-> Str(Replace(cfg.BIND_DN, Placeholder, username_sanitized)),
        password |-> None, authentication |-> SIMPLE]
  ELSE IF cfg.BIND_DN # <<>>
  THEN [raised |-> FALSE, user |-> Str(cfg.BIND_DN),
        password |-> Str(password), authentication |-> SIMPLE]
  ELSE [raised |-> FALSE, user |-> None, password |-> None,
        authentication |-> ANONYMOUS]

\* _get_auth_details: the keyword arguments of the search Connection, or the
\* UnboundLocalError of "password = password" in the templated branch
_get_auth_details(username_sanitized) ==
  IF cfg.BIND_DN # <<>> /\ Contains(cfg.BIND_DN, Placeholder)
  THEN [raised |-> TRUE,
        user |-> Str(Replace(cfg.BIND_DN, Placeholder, username_sanitized)),
        password |-> None, authentication |-> SIMPLE]
  ELSE IF cfg.BIND_DN # <<>>
  THEN [raised |-> FALSE, user |-> Str(cfg.BIND_DN),
        password |-> Str(cfg.BIND_PASSWORD), authentication |-> SIMPLE]
  ELSE [raised |-> FALSE, user |-> None, password |-> None,
        authentication |-> ANONYMOUS]

\* a Connection(...) that was built, bound by its auto_bind; srv is the
\* server argument as login passed it
Connection(srv, ab, auth) ==
  [type |-> "Connection", server |-> srv, auto_bind |-> ab, user |-> auth.user,
   password |-> auth.password, authentication |-> auth.authentication,
   bound |-> TRUE, closed |-> FALSE, response |-> <<>>]

\* a call login makes to ldap3, as ops keeps it: Connection(...) with its
\* arguments, and whether it returned (ok) or raised
ConnectionCall(conn, srv, ab, auth, ok) ==
  [op |-> "Connection", conn |-> conn, server |-> srv, auto_bind |-> ab,
   user |-> auth.user, password |-> auth.password,
   authentication |-> auth.authentication, filter |-> <<>>, ok |-> ok,
   response |-> <<>>]

\* c.search(...) with its filter, whether it returned or raised, and what
\* it left in c.response
SearchCall(f, ok, response) ==
  [op |-> "search", conn |-> "search", server |-> None, auto_bind |-> "",
   user |-> None, password |-> None, authentication |-> "", filter |-> f,
   ok |-> ok, response |-> response]

\* connector.py:63-65
ServerError == Raise(LDAPConnectionError, "Error connecting to LDAP server")

\* connector.py:116-118
ConnectError == Raise(LDAPConnectionError, "Error connecting to LDAP server")

\* the except clause of the search copied from the one of the Connection
SearchError_AsConnection ==
  Raise(LDAPConnectionError, "Error connecting to LDAP server")

\* connector.py:132-134
SearchError == Raise(LDAPUserLoginError, "LDAP login incorrect")

\* the verification bind reported as a failure to reach the server
BindError_AsConnection ==
  Raise(LDAPConnectionError, "Error connecting to LDAP server")

\* connector.py:163-165
BindError == Raise(LDAPUserLoginError, "LDAP bind failed")

Init ==
  /\ cfg \in Settings
  /\ dir \in Directories
  /\ username_or_email \in Usernames
  /\ password \in Passwords
  /\ pc = "start"
  /\ server = None
  /\ username_or_email_sanitized = <<>>
  /\ auto_bind = AUTO_BIND_NO_TLS
  /\ c = None
  /\ search_filter = <<>>
  /\ identity = <<>>
  /\ verification = None
  /\ result = Pending
  /\ ops = <<>>
  /\ fault = "none"
  /\ parked = <<>>

\* connector.py:106-111: the server, the sanitized input, the auto_bind mode
GetServer ==
  /\ pc = "start"
  /\ \E built \in BOOLEAN :
       LET r == _get_server(built)
       IN  /\ fault' = IF built THEN fault ELSE "server"
           /\ IF r.raised
              THEN /\ result' = ServerError
                   /\ pc' = "done"
                   /\ UNCHANGED <<server, username_or_email_sanitized, auto_bind>>
              ELSE /\ server' = r.value
                   /\ username_or_email_sanitized' =
                        escape_filter_chars(username_or_email)
                   /\ auto_bind' = IF cfg.START_TLS THEN AUTO_BIND_TLS_BEFORE_BIND
                                   ELSE AUTO_BIND_NO_TLS
                   /\ pc' = "connect"
                   /\ UNCHANGED result
  /\ UNCHANGED <<parked, cfg, dir, username_or_email, password, c, search_filter,
                 identity, verification, ops>>

\* the search Connection tried again after it raised
Connect_Retry ==
  /\ pc = "connect"
  /\ LET auth == _get_auth_details(username_or_email_sanitized)
     IN  IF auth.raised
         THEN /\ result' = ConnectError
              /\ pc' = "done"
              /\ UNCHANGED <<c, ops, fault>>
         ELSE \E net \in BOOLEAN :
                LET ok == net /\ BindAccepted(dir, auth)
                IN  /\ ops' = Append(ops, ConnectionCall("search", server, auto_bind,
                                                         auth, ok))
                    /\ fault' = IF net THEN fault ELSE "session"
                    /\ IF ok
                       THEN /\ c' = Connection(server, auto_bind, auth)
                            /\ pc' = "search"
                       ELSE /\ pc' = "connect"
                            /\ UNCHANGED c
                    /\ UNCHANGED result
  /\ UNCHANGED <<parked, cfg, dir, username_or_email, password, server,
                 username_or_email_sanitized, auto_bind, search_filter, identity,
                 verification>>

\* connector.py:113-118: the search Connection
Connect ==
  /\ pc = "connect"
  /\ LET auth == _get_auth_details(username_or_email_sanitized)
     IN  IF auth.raised
         THEN /\ result' = ConnectError
              /\ pc' = "done"
              /\ UNCHANGED <<c, ops, fault>>
         ELSE \E net \in BOOLEAN :
                LET ok == net /\ BindAccepted(dir, auth)
                IN  /\ ops' = Append(ops, ConnectionCall("search", server, auto_bind,
                                                         auth, ok))
                    /\ fault' = IF net THEN fault ELSE "session"
                    /\ IF ok
                       THEN /\ c' = Connection(server, auto_bind, auth)
                            /\ pc' = "search"
                            /\ UNCHANGED result
                       ELSE /\ result' = ConnectError
                            /\ pc' = "done"
                            /\ UNCHANGED c
  /\ UNCHANGED <<parked, cfg, dir, username_or_email, password, server,
                 username_or_email_sanitized, auto_bind, search_filter, identity,
                 verification>>

\* connector.py:121-124: the search filter, '(|(%s=%s)(%s=%s))' and '(&%s%s)'
SearchFilter(value) ==
  LET either == <<"(", "|", "(", USERNAME_ATTRIBUTE, "=">> \o value
                \o <<")", "(", EMAIL_ATTRIBUTE, "=">> \o value \o <<")", ")">>
  IN  IF cfg.SEARCH_FILTER_ADDITIONAL # <<>>
      THEN <<"(", "&">> \o either \o cfg.SEARCH_FILTER_ADDITIONAL \o <<")">>
      ELSE either

\* the attributes the search asks for (connector.py:129-130)
Requested == {USERNAME_ATTRIBUTE, EMAIL_ATTRIBUTE, FULL_NAME_ATTRIBUTE}

\* paged_size of the search (connector.py:131): one page is read
PagedSize == 5

\* a matched entry as ldap3 lists it in Connection.response
ResultEntry(e) ==
  [type |-> "searchResEntry", dn |-> e.dn,
   raw_attributes |-> [a \in Requested \cap DOMAIN e.raw_attributes |->
                         e.raw_attributes[a]]]

\* a search reference as ldap3 lists it: neither 'dn' nor 'raw_attributes'
ResultRef == [type |-> "searchResRef", uri |-> <<"ldap://other">>]

\* a response item that names an object and carries no attribute set
ResultDnOnly == [type |-> "intermediateResponse", dn |-> <<"C">>]

\* a response item that carries an attribute set and names no object
ResultRawOnly ==
  [type |-> "extendedResp",
   raw_attributes |-> EntryA.raw_attributes]

Artifacts == {ResultRef, ResultDnOnly, ResultRawOnly}

RECURSIVE ArtifactSeqs(_)
\* the sequences of at most n items that are not entries
ArtifactSeqs(n) ==
  IF n = 0 THEN {<<>>}
  ELSE LET shorter == ArtifactSeqs(n - 1)
       IN  shorter \cup {s \o <<r>> : s \in shorter, r \in Artifacts}

\* the response of the search: the first page of matched entries, with the
\* other items the server sent before or after them
Response(f, others, first) ==
  LET found == Matching(dir, f)
      page == SubSeq(found, 1, IF Len(found) < PagedSize THEN Len(found) ELSE PagedSize)
      entries == [i \in 1..Len(page) |-> ResultEntry(page[i])]
  IN  IF first THEN others \o entries ELSE entries \o others

\* connector.py:120-134: build the filter and search
Search ==
  /\ pc = "search"
  /\ search_filter' = SearchFilter(username_or_email_sanitized)
  /\ \E net \in BOOLEAN, others \in ArtifactSeqs(MaxRefs), first \in BOOLEAN :
       LET ok == net /\ FilterOk(search_filter')
           response == IF ok THEN Response(search_filter', others, first) ELSE <<>>
       IN  /\ ops' = Append(ops, SearchCall(search_filter', ok, response))
           /\ fault' = IF net THEN fault ELSE "search"
           /\ IF ok
              THEN /\ c' = [c EXCEPT !.response = response]
                   /\ pc' = "validate"
                   /\ UNCHANGED result
              ELSE /\ result' = SearchError
                   /\ pc' = "done"
                   /\ UNCHANGED c
  /\ UNCHANGED <<parked, cfg, dir, username_or_email, password, server,
                 username_or_email_sanitized, auto_bind, identity, verification>>

RECURSIVE UserObjects_DnOnly(_)
\* the test of 'raw_attributes' lost from the comprehension
UserObjects_DnOnly(response) ==
  IF response = <<>> THEN <<>>
  ELSE (IF "dn" \in DOMAIN Head(response) THEN <<Head(response)>> ELSE <<>>)
       \o UserObjects_DnOnly(Tail(response))

RECURSIVE UserObjects(_)
\* connector.py:137: [r for r in c.response if 'raw_attributes' in r and 'dn' in r]
UserObjects(response) ==
  IF response = <<>> THEN <<>>
  ELSE (IF "raw_attributes" \in DOMAIN Head(response) /\ "dn" \in DOMAIN Head(response)
        THEN <<Head(response)>> ELSE <<>>)
       \o UserObjects(Tail(response))

\* the truth value of raw_attributes.get(attribute): a list that is not empty
Truthy(raw_attributes, attribute) ==
  /\ attribute \in DOMAIN raw_attributes
  /\ raw_attributes[attribute] # <<>>

\* the full name left out of the mandatory attributes
Complete_TwoOnly(raw_attributes) ==
  /\ Truthy(raw_attributes, USERNAME_ATTRIBUTE)
  /\ Truthy(raw_attributes, EMAIL_ATTRIBUTE)

\* connector.py:149-151
Complete(raw_attributes) ==
  /\ Truthy(raw_attributes, USERNAME_ATTRIBUTE)
  /\ Truthy(raw_attributes, EMAIL_ATTRIBUTE)
  /\ Truthy(raw_attributes, FULL_NAME_ATTRIBUTE)

\* "exactly one" tested first (len(c.response) != 1): an empty response is
\* reported as ambiguous
ValidationError_CountFirst(response) ==
  IF Len(response) # 1 THEN "LDAP login could not be determined."
  ELSE IF ~Complete(response[1].raw_attributes) THEN "LDAP login is invalid."
  ELSE ""

\* the check for several matches lost: the first entry is picked
ValidationError_PickFirst(response) ==
  IF response = <<>> THEN "LDAP login not found"
  ELSE IF ~Complete(response[1].raw_attributes) THEN "LDAP login is invalid."
  ELSE ""

\* connector.py:139-152: the message of the error the response is refused
\* with, "" when it is one complete entry; "AttributeError" when
\* c.response[0].get('raw_attributes') is None and .get is called on it
ValidationError(response) ==
  IF response = <<>> THEN "LDAP login not found"
  ELSE IF Len(response) > 1 THEN "LDAP login could not be determined."
  ELSE IF "raw_attributes" \notin DOMAIN response[1] THEN "AttributeError"
  ELSE IF ~Complete(response[1].raw_attributes) THEN "LDAP login is invalid."
  ELSE ""

\* connector.py:155-157: the exception raw_attributes.get(A)[0].decode('utf-8')
\* raises for one of the three attributes, "" when all three are read
ReadError(raw_attributes) ==
  IF \E a \in Requested : a \notin DOMAIN raw_attributes THEN "TypeError"
  ELSE IF \E a \in Requested : raw_attributes[a] = <<>> THEN "IndexError"
  ELSE IF \E a \in Requested : ~Decodable(raw_attributes[a][1])
    THEN "UnicodeDecodeError"
  ELSE ""

\* the username taken from what the caller typed instead of from the entry
ReadIdentity_Typed(raw_attributes) ==
  <<username_or_email,
    Decode(raw_attributes[EMAIL_ATTRIBUTE][1]),
    Decode(raw_attributes[FULL_NAME_ATTRIBUTE][1])>>

\* connector.py:155-157: the first value of each attribute, decoded
ReadIdentity(raw_attributes) ==
  <<Decode(raw_attributes[USERNAME_ATTRIBUTE][1]),
    Decode(raw_attributes[EMAIL_ATTRIBUTE][1]),
    Decode(raw_attributes[FULL_NAME_ATTRIBUTE][1])>>

\* connector.py:136-157: keep the user objects, check them, read the attributes
Validate ==
  /\ pc = "validate"
  /\ LET response == UserObjects(c.response)
         refused == ValidationError(response)
     IN  /\ c' = [c EXCEPT !.response = response]
         /\ IF refused # ""
            THEN /\ result' = IF refused = "AttributeError"
                                THEN Raise("AttributeError", "")
                                ELSE Raise(LDAPUserLoginError, refused)
                 /\ pc' = "done"
                 /\ UNCHANGED identity
            ELSE LET raw_attributes == response[1].raw_attributes
                 IN  IF ReadError(raw_attributes) # ""
                     THEN /\ result' = Raise(ReadError(raw_attributes), "")
                          /\ pc' = "done"
                          /\ UNCHANGED identity
                     ELSE /\ identity' = ReadIdentity(raw_attributes)
                          /\ pc' = "bind"
                          /\ UNCHANGED result
  /\ UNCHANGED <<parked, cfg, dir, username_or_email, password, server,
                 username_or_email_sanitized, auto_bind, search_filter,
                 verification, ops, fault>>

\* the sanitizer applied to the password as it is to the username
VerificationAuth_Escaped ==
  [user |-> Str(Decode(Encode(c.response[1].dn))),
   password |-> Str(escape_filter_chars(password)), authentication |-> SIMPLE]

\* connector.py:159-162: the keyword arguments of the verification Connection
VerificationAuth ==
  [user |-> Str(Decode(Encode(c.response[1].dn))), password |-> Str(password),
   authentication |-> SIMPLE]

\* the except clause of the verification bind lost: the triple is returned
\* whether the bind succeeded or not
AfterVerification_Unchecked(bound) == Return(identity)

\* connector.py:163-169: raise when the Connection raised, else return
AfterVerification(bound) == IF bound THEN Return(identity) ELSE BindError

\* the verification session opened without the encryption upgrade
VerificationAutoBind_NoTls == AUTO_BIND_NO_TLS

\* connector.py:160: auto_bind=auto_bind, the value computed at lines 109-111
VerificationAutoBind == auto_bind

\* connector.py:158-169: bind as the entry with the caller's password, return
VerifyBind ==
  /\ pc = "bind"
  /\ \E net \in BOOLEAN :
       LET ok == net /\ BindAccepted(dir, VerificationAuth)
       IN  /\ ops' = Append(ops, ConnectionCall("verification", server,
                                                VerificationAutoBind,
                                                VerificationAuth, ok))
           /\ fault' = IF net THEN fault ELSE "verification"
           /\ verification' = IF ok THEN Connection(server, VerificationAutoBind,
                                                    VerificationAuth)
                              ELSE verification
           /\ result' = AfterVerification(ok)
  /\ pc' = "done"
  /\ UNCHANGED <<parked, cfg, dir, username_or_email, password, server,
                 username_or_email_sanitized, auto_bind, c, search_filter, identity>>

Next == GetServer \/ Connect \/ Search \/ Validate \/ VerifyBind

Spec == Init /\ [][Next]_vars

\* -------------------------------------------------------------------------
\* Several calls of login in progress at once
\* -------------------------------------------------------------------------

\* the calls in progress
NumCalls == 2

\* the settings, directories and arguments of the concurrent calls: an
\* anonymous search bind, a refused one and a templated one
ConcSettings ==
  {s \in Settings : /\ ~s.START_TLS
                    /\ s.SEARCH_FILTER_ADDITIONAL = <<>>
                    /\ s.BIND_PASSWORD # ServicePw}

ConcDirectories == { <<EntryA>>, <<EntryA, EntryB>> }

ConcArguments ==
  { [username_or_email |-> <<"a">>, password |-> <<"p">>],
    [username_or_email |-> <<"b">>, password |-> <<"*">>],
    [username_or_email |-> <<"*">>, password |-> <<"p">>] }

\* the arguments and locals of the call that is running
Frame ==
  [username_or_email |-> username_or_email, password |-> password, pc |-> pc,
   server |-> server, username_or_email_sanitized |-> username_or_email_sanitized,
   auto_bind |-> auto_bind, c |-> c, search_filter |-> search_filter,
   identity |-> identity, verification |-> verification, result |-> result,
   ops |-> ops, fault |-> fault]

\* the frame of a call that has not made a step
NewFrame(args) ==
  [username_or_email |-> args.username_or_email, password |-> args.password,
   pc |-> "start", server |-> None, username_or_email_sanitized |-> <<>>,
   auto_bind |-> AUTO_BIND_NO_TLS, c |-> None, search_filter |-> <<>>,
   identity |-> <<>>, verification |-> None, result |-> Pending,
   ops |-> <<>>, fault |-> "none"]

InitConc ==
  /\ cfg \in ConcSettings
  /\ dir \in ConcDirectories
  /\ \E args \in ConcArguments :
        /\ username_or_email = args.username_or_email
        /\ password = args.password
  /\ pc = "start"
  /\ server = None
  /\ username_or_email_sanitized = <<>>
  /\ auto_bind = AUTO_BIND_NO_TLS
  /\ c = None
  /\ search_filter = <<>>
  /\ identity = <<>>
  /\ verification = None
  /\ result = Pending
  /\ ops = <<>>
  /\ fault = "none"
  /\ parked \in [1..(NumCalls - 1) -> {NewFrame(args) : args \in ConcArguments}]

\* c kept in a module-level global: a switch leaves it as the last call set it
Switch_SharedC(k) ==
  /\ parked[k].pc # "done"
  /\ parked' = [parked EXCEPT ![k] = Frame]
  /\ username_or_email' = parked[k].username_or_email
  /\ password' = parked[k].password
  /\ pc' = parked[k].pc
  /\ server' = parked[k].server
  /\ username_or_email_sanitized' = parked[k].username_or_email_sanitized
  /\ auto_bind' = parked[k].auto_bind
  /\ search_filter' = parked[k].search_filter
  /\ identity' = parked[k].identity
  /\ verification' = parked[k].verification
  /\ result' = parked[k].result
  /\ ops' = parked[k].ops
  /\ fault' = parked[k].fault
  /\ UNCHANGED <<cfg, dir, c>>

\* connector.py:92-169: every name login assigns is a local of the call, so
\* when the scheduler runs another call it is that call's locals that the
\* next statements read and write; the settings are the module's
Switch(k) ==
  /\ parked[k].pc # "done"
  /\ parked' = [parked EXCEPT ![k] = Frame]
  /\ username_or_email' = parked[k].username_or_email
  /\ password' = parked[k].password
  /\ pc' = parked[k].pc
  /\ server' = parked[k].server
  /\ username_or_email_sanitized' = parked[k].username_or_email_sanitized
  /\ auto_bind' = parked[k].auto_bind
  /\ c' = parked[k].c
  /\ search_filter' = parked[k].search_filter
  /\ identity' = parked[k].identity
  /\ verification' = parked[k].verification
  /\ result' = parked[k].result
  /\ ops' = parked[k].ops
  /\ fault' = parked[k].fault
  /\ UNCHANGED <<cfg, dir>>

NextConc ==
  \/ GetServer
  \/ Connect
  \/ Search
  \/ Validate
  \/ VerifyBind
  \/ \E k \in 1..Len(parked) : Switch(k)

SpecConc == InitConc /\ [][NextConc]_vars

\* connector.py:92-169: what login gives for its arguments when the step
\* named by failed (if any) is the one the transport fails at
LoginAlone(username, pw, failed) ==
  LET sanitized == escape_filter_chars(username)
      auth == _get_auth_details(sanitized)
      f == SearchFilter(sanitized)
      response == UserObjects(Response(f, <<>>, FALSE))
  IN  IF _get_server(failed # "server").raised THEN ServerError
      ELSE IF auth.raised \/ failed = "session" \/ ~BindAccepted(dir, auth)
        THEN ConnectError
      ELSE IF failed = "search" \/ ~FilterOk(f) THEN SearchError
      ELSE IF ValidationError(response) # ""
        THEN Raise(LDAPUserLoginError, ValidationError(response))
      ELSE IF ReadError(response[1].raw_attributes) # ""
        THEN Raise(ReadError(response[1].raw_attributes), "")
      ELSE IF failed = "verification"
              \/ ~SimpleBindAccepted(dir, response[1].dn, pw)
        THEN BindError
      ELSE Return(ReadIdentity(response[1].raw_attributes))

\* -------------------------------------------------------------------------
\* Properties
\* -------------------------------------------------------------------------

\* the search of this call returned a response
SearchReturned == \E i \in 1..Len(ops) : ops[i].op = "search" /\ ops[i].ok

\* the eligible entries of the response: those with a DN and an attribute set
Eligible == UserObjects(c.response)

\* the calls of Connection(...) for the verification session
VerificationCalls ==
  {i \in 1..Len(ops) : ops[i].op = "Connection" /\ ops[i].conn = "verification"}

NoVerificationBind == VerificationCalls = {} /\ IsNone(verification)

\* the entry has a value list that is not empty for each of the three attributes
Populated(raw_attributes) ==
  \A a \in Requested : a \in DOMAIN raw_attributes /\ raw_attributes[a] # <<>>

HasMetachar(text) == \E i \in 1..Len(text) : text[i] \in {"*", "(", ")", "\\"}

\* C1: login returns a (username, email, full_name) triple only if its last
\* call was a verification bind that succeeded, with identity = the DN of the
\* one entry of the directory the search filter matches and secret = the
\* password the caller passed; every other call that ended raised an error and
\* returned nothing.
C1_ReturnOnlyAfterVerificationBind ==
  /\ pc # "done" => result = Pending
  /\ pc = "done" =>
       IF result.kind = "return"
       THEN /\ Len(result.value) = 3
            /\ ops # <<>>
            /\ LET b == ops[Len(ops)]
               IN  /\ b.op = "Connection" /\ b.conn = "verification" /\ b.ok
                   /\ b.authentication = SIMPLE
                   /\ b.password = Str(password)
                   /\ \E i \in 1..Len(dir) :
                        /\ b.user = Str(dir[i].dn)
                        /\ dir[i].pw = password
                        /\ FilterMatches(search_filter, dir[i])
                        /\ \A j \in 1..Len(dir) :
                             FilterMatches(search_filter, dir[j]) => j = i
       ELSE result.kind = "raise" /\ result.value = <<>>

C1_Witness == pc = "done" /\ result.kind = "return"

\* C2: when the search returns no eligible entry, login raises
\* LDAPUserLoginError 'LDAP login not found' and no verification bind is made.
C2_NotFound ==
  (SearchReturned /\ Eligible = <<>>) =>
     /\ NoVerificationBind
     /\ pc \in {"validate", "done"}
     /\ pc = "done" => result = Raise(LDAPUserLoginError, "LDAP login not found")

C2_Witness ==
  /\ pc = "done" /\ SearchReturned /\ Eligible = <<>>
  /\ result.msg = "LDAP login not found"

\* C3: when the search returns two or more eligible entries, login raises
\* LDAPUserLoginError 'LDAP login could not be determined.' and no
\* verification bind is made, whatever the attributes of the entries.
C3_Ambiguous ==
  (SearchReturned /\ Len(Eligible) >= 2) =>
     /\ NoVerificationBind
     /\ pc \in {"validate", "done"}
     /\ pc = "done" =>
          result = Raise(LDAPUserLoginError, "LDAP login could not be determined.")

C3_Witness ==
  /\ pc = "done" /\ SearchReturned /\ Len(Eligible) >= 2
  /\ result.msg = "LDAP login could not be determined."

OneVerificationBind ==
  /\ Cardinality(VerificationCalls) = 1
  /\ \A i \in VerificationCalls :
       /\ ops[i].user = Str(Eligible[1].dn)
       /\ ops[i].password = Str(password)
       /\ ops[i].authentication = SIMPLE
  /\ \A i \in 1..Len(ops) :
       ops[i].op = "search" =>
         ops[i].filter = SearchFilter(escape_filter_chars(username_or_email))

PlainSettings ==
  \/ cfg.BIND_DN = <<>>
  \/ cfg.BIND_DN = ServiceDn /\ cfg.BIND_PASSWORD = ServicePw

\* the text is a value of the entry's attribute
IsValueOf(text, e, attr) ==
  /\ attr \in DOMAIN e.raw_attributes
  /\ \E k \in 1..Len(e.raw_attributes[attr]) :
       /\ Decodable(e.raw_attributes[attr][k])
       /\ Decode(e.raw_attributes[attr][k]) = text

\* the entry is the one the input names: by username or by email, and within
\* the additional filter when one is set
Names(text, e) ==
  /\ IsValueOf(text, e, USERNAME_ATTRIBUTE) \/ IsValueOf(text, e, EMAIL_ATTRIBUTE)
  /\ cfg.SEARCH_FILTER_ADDITIONAL # <<>> => IsValueOf(<<"p">>, e, "objectClass")

\* scenario A for entry i: nothing failed in the transport, the settings are
\* plain, the directory holds exactly one entry the input names, the entry is
\* complete and readable, and the password is the entry's
ScenarioA(i) ==
  /\ fault = "none"
  /\ PlainSettings
  /\ Names(username_or_email, dir[i])
  /\ \A j \in 1..Len(dir) : Names(username_or_email, dir[j]) => j = i
  /\ Populated(dir[i].raw_attributes)
  /\ \A a \in Requested : Decodable(dir[i].raw_attributes[a][1])
  /\ password # <<>> /\ dir[i].pw = password

IsServer(v) == v.type = "Server"

\* C6: _get_server hands login a Server, and in scenario A login returns the
\* entry's (username, email, full_name), both the search session and the
\* verification session being opened on that Server.
C6_LoginSucceeds ==
  /\ (pc # "start" /\ fault # "server") => IsServer(server)
  /\ \A i \in 1..Len(dir) :
       (pc = "done" /\ ScenarioA(i)) =>
          /\ result = Return(<<Decode(dir[i].raw_attributes[USERNAME_ATTRIBUTE][1]),
                               Decode(dir[i].raw_attributes[EMAIL_ATTRIBUTE][1]),
                               Decode(dir[i].raw_attributes[FULL_NAME_ATTRIBUTE][1])>>)
          /\ ~IsNone(c) /\ IsServer(c.server)
          /\ ~IsNone(verification) /\ IsServer(verification.server)

Templated == Contains(cfg.BIND_DN, Placeholder)

\* C7: under a templated LDAP_BIND_DN, once the search session was attempted
\* its bind used the template with the placeholder replaced by the sanitized
\* input, the simple mechanism, and the password the caller passed to login.
C7_TemplatedSearchBind ==
  (Templated /\ pc \notin {"start", "connect"} /\ fault # "server") =>
     /\ ops # <<>>
     /\ ops[1].op = "Connection" /\ ops[1].conn = "search"
     /\ ops[1].user = Str(Replace(cfg.BIND_DN, Placeholder,
                                  escape_filter_chars(username_or_email)))
     /\ ops[1].authentication = SIMPLE
     /\ ops[1].password = Str(password)

\* C8: when the call has ended, every session it opened (the search
\* Connection and the verification Connection) is closed.
C8_SessionsClosed ==
  pc = "done" =>
     /\ IsNone(c) \/ c.closed
     /\ IsNone(verification) \/ verification.closed

\* C9: when the transport cannot be established (the Server cannot be built,
\* or the search session cannot be opened), login raises LDAPConnectionError
\* and makes no search.
C9_NoTransportNoSearch ==
  (pc = "done" /\ fault \in {"server", "session"}) =>
     /\ result.kind = "raise" /\ result.exc = LDAPConnectionError
     /\ \A i \in 1..Len(ops) : ops[i].op # "search"
     /\ fault = "server" => ops = <<>>

C9_Witness ==
  /\ pc = "done" /\ fault = "server"
  /\ result.exc = LDAPConnectionError /\ ops = <<>>

\* C10: the error of a login that failed before or at the search is fixed by
\* the stage: no call made yet (the Server, or the credentials of the search
\* session) or a search Connection that raised (refused credentials
\* included) gives LDAPConnectionError; a search that raised on the
\* established session gives LDAPUserLoginError 'LDAP login incorrect'.
C10_ErrorKindByStage ==
  pc = "done" =>
     /\ ops = <<>> => result.kind = "raise" /\ result.exc = LDAPConnectionError
     /\ ops # <<>> =>
          LET last == ops[Len(ops)]
          IN  /\ (last.op = "Connection" /\ last.conn = "search" /\ ~last.ok) =>
                   result.kind = "raise" /\ result.exc = LDAPConnectionError
              /\ (last.op = "search" /\ ~last.ok) =>
                   result = Raise(LDAPUserLoginError, "LDAP login incorrect")

C10_Witness ==
  /\ pc = "done" /\ fault = "search"
  /\ ops[Len(ops)].op = "search" /\ ~ops[Len(ops)].ok
  /\ ops[1].op = "Connection" /\ ops[1].ok
  /\ result = Raise(LDAPUserLoginError, "LDAP login incorrect")

\* C11: a login whose verification Connection raised, whether the directory
\* refused the password or the attempt itself failed, ends in
\* LDAPUserLoginError 'LDAP bind failed' and returns nothing, although the
\* three attribute values had been read.
C11_BindFailed ==
  (pc = "done" /\ ops # <<>> /\ ops[Len(ops)].conn = "verification"
     /\ ~ops[Len(ops)].ok) =>
     /\ result = Raise(LDAPUserLoginError, "LDAP bind failed")
     /\ result.value = <<>>
     /\ IsNone(verification)
     /\ Len(identity) = 3

C11_Witness ==
  /\ pc = "done" /\ fault = "none"
  /\ Len(ops) = 3 /\ ops[3].conn = "verification" /\ ~ops[3].ok
  /\ ops[3].password # Str(<<>>)
  /\ Len(identity) = 3
  /\ result = Raise(LDAPUserLoginError, "LDAP bind failed")

\* C12: the triple a login returns is the decoding of the first value of the
\* uid, mail and displayName attributes of the directory entry it bound as,
\* whatever the caller typed to select that entry.
C12_ReturnedTriple ==
  (pc = "done" /\ result.kind = "return") =>
     \E i \in 1..Len(dir) :
        /\ verification.user = Str(dir[i].dn)
        /\ FilterMatches(search_filter, dir[i])
        /\ Decodable(dir[i].raw_attributes[USERNAME_ATTRIBUTE][1])
        /\ Decodable(dir[i].raw_attributes[EMAIL_ATTRIBUTE][1])
        /\ Decodable(dir[i].raw_attributes[FULL_NAME_ATTRIBUTE][1])
        /\ result.value =
             <<Decode(dir[i].raw_attributes[USERNAME_ATTRIBUTE][1]),
               Decode(dir[i].raw_attributes[EMAIL_ATTRIBUTE][1]),
               Decode(dir[i].raw_attributes[FULL_NAME_ATTRIBUTE][1])>>

C12_Witness ==
  /\ pc = "done" /\ result.kind = "return"
  /\ result.value[1] # username_or_email
  /\ \E i \in 1..Len(dir) :
        /\ verification.user = Str(dir[i].dn)
        /\ Len(dir[i].raw_attributes[EMAIL_ATTRIBUTE]) > 1
        /\ result.value[2] = Decode(dir[i].raw_attributes[EMAIL_ATTRIBUTE][1])

\* the number of parentheses of the filter text that open a clause
OpeningParens(f) == Cardinality({i \in 1..Len(f) : f[i] = "("})

\* C13: whatever the input, the search filter is '(|(uid=V)(mail=V))', wrapped
\* as '(&(|...)additional)' when an additional filter is set, and the
\* directory reads V as one literal value, the input itself: the filter is
\* well formed, has the clauses of the filter of a plain input and no more,
\* and matches no entry that has the input neither as a uid nor as a mail
\* value.
C13_InputIsOneLiteral ==
  search_filter # <<>> =>
     \E V \in {username_or_email_sanitized} :
        /\ search_filter = SearchFilter(V)
        /\ ParseValue(V \o <<")">>, 1) =
             [ok |-> TRUE, pat |-> username_or_email, i |-> Len(V) + 1]
        /\ FilterOk(search_filter)
        /\ OpeningParens(search_filter) = OpeningParens(SearchFilter(<<"a">>))
        /\ \A i \in 1..Len(dir) :
              FilterMatches(search_filter, dir[i]) =>
                 \/ IsValueOf(username_or_email, dir[i], USERNAME_ATTRIBUTE)
                 \/ IsValueOf(username_or_email, dir[i], EMAIL_ATTRIBUTE)

C13_Witness ==
  /\ username_or_email = Injection
  /\ search_filter # <<>> /\ dir # <<>>
  /\ ops[Len(ops)].op = "search" /\ ops[Len(ops)].ok
  /\ c.response = <<>>

\* the places in ops of the calls of one step
CallsOf(op, conn) == {i \in 1..Len(ops) : ops[i].op = op /\ ops[i].conn = conn}

\* C15: within one login the search Connection, the search and the
\* verification Connection are each made at most once; a call that raised is
\* the last one made; a login that could not build its Server makes none; a
\* login that has raised has ended, and one that refused the search result
\* made nothing after the search.
C15_NoRetryFirstFailureEnds ==
  /\ Cardinality(CallsOf("Connection", "search")) <= 1
  /\ Cardinality(CallsOf("search", "search")) <= 1
  /\ Cardinality(CallsOf("Connection", "verification")) <= 1
  /\ \A i \in 1..Len(ops) : ~ops[i].ok => i = Len(ops)
  /\ fault = "server" => ops = <<>>
  /\ result.kind = "raise" => pc = "done"
  /\ (result.kind = "raise" /\ result # BindError /\ ops # <<>>) =>
        /\ ops[Len(ops)].conn = "search"
        /\ IsNone(verification)

C15_Witness ==
  /\ pc = "done" /\ fault = "none"
  /\ result = Raise(LDAPUserLoginError, "LDAP login is invalid.")
  /\ Len(ops) = 2 /\ ops[1].ok /\ ops[2].op = "search" /\ ops[2].ok
  /\ Len(c.response) = 1

\* what a call puts on the wire: a Connection with auto_bind upgrades the
\* session first when told to, then binds; a search is one request
Wire(call) ==
  IF call.op = "search" THEN <<"search">>
  ELSE (IF call.auto_bind = AUTO_BIND_TLS_BEFORE_BIND THEN <<"start_tls">> ELSE <<>>)
       \o <<"bind " \o call.conn>>

RECURSIVE WireOps(_)
WireOps(calls) ==
  IF calls = <<>> THEN <<>> ELSE Wire(Head(calls)) \o WireOps(Tail(calls))

\* the operations of a complete login, in order
FullOrder ==
  IF cfg.START_TLS
  THEN <<"start_tls", "bind search", "search", "start_tls", "bind verification">>
  ELSE <<"bind search", "search", "bind verification">>

\* C16: what a login sends is a prefix of: (upgrade,) search bind, one subtree
\* search, (upgrade,) verification bind. The search comes only after the
\* search Connection returned; the verification bind only after the search
\* returned and its result was exactly one entry with the three attributes.
C16_OrderOfOperations ==
  /\ Len(WireOps(ops)) <= Len(FullOrder)
  /\ WireOps(ops) = SubSeq(FullOrder, 1, Len(WireOps(ops)))
  /\ \A i \in CallsOf("search", "search") :
        i = 2 /\ ops[1].op = "Connection" /\ ops[1].conn = "search" /\ ops[1].ok
  /\ \A i \in CallsOf("Connection", "verification") :
        /\ i = 3 /\ ops[2].op = "search" /\ ops[2].ok
        /\ Len(c.response) = 1
        /\ "dn" \in DOMAIN c.response[1]
        /\ Populated(c.response[1].raw_attributes)
        /\ ops[3].user = Str(c.response[1].dn)

C16_Witness ==
  /\ pc = "done" /\ cfg.START_TLS
  /\ WireOps(ops) = FullOrder
  /\ result.kind = "return"

\* the auto_bind mode the settings call for (connector.py:109-111)
ConfiguredMode ==
  IF cfg.START_TLS THEN AUTO_BIND_TLS_BEFORE_BIND ELSE AUTO_BIND_NO_TLS

\* C18: the verification Connection is opened with the auto_bind mode of the
\* search Connection of the same login: TLS before bind for both when
\* START_TLS is set, no TLS for both otherwise.
C18_SameUpgradeMode ==
  /\ \A i \in CallsOf("Connection", "search") : ops[i].auto_bind = ConfiguredMode
  /\ \A i \in CallsOf("Connection", "verification") :
        /\ ops[i].auto_bind = ConfiguredMode
        /\ \A j \in CallsOf("Connection", "search") :
              ops[i].auto_bind = ops[j].auto_bind
  /\ ~IsNone(c) => c.auto_bind = ConfiguredMode
  /\ ~IsNone(verification) =>
        ~IsNone(c) /\ verification.auto_bind = c.auto_bind

C18_Witness ==
  /\ cfg.START_TLS /\ pc = "done"
  /\ Len(ops) = 3 /\ ops[3].conn = "verification"
  /\ ops[1].auto_bind = AUTO_BIND_TLS_BEFORE_BIND
  /\ ops[3].auto_bind = AUTO_BIND_TLS_BEFORE_BIND
  /\ ops[3].password = Str(password)

\* C19: with settings that are not templated the search Connection gets
\* credentials made of the settings alone: the configured DN and password
\* with SIMPLE when a bind DN is set, no user, no password and ANONYMOUS when
\* none is; the caller's password is not what is sent.
C19_SearchBindCredentials ==
  ~Templated =>
     \A i \in CallsOf("Connection", "search") :
        IF cfg.BIND_DN # <<>>
        THEN /\ ops[i].user = Str(cfg.BIND_DN)
             /\ ops[i].password = Str(cfg.BIND_PASSWORD)
             /\ ops[i].authentication = SIMPLE
        ELSE /\ IsNone(ops[i].user)
             /\ IsNone(ops[i].password)
             /\ ops[i].authentication = ANONYMOUS

C19_Witness ==
  /\ cfg.BIND_DN # <<>> /\ ~Templated
  /\ password # <<>> /\ password # cfg.BIND_PASSWORD
  /\ HasMetachar(username_or_email)
  /\ ops # <<>> /\ ops[1].conn = "search" /\ ops[1].ok
  /\ ops[1].user = Str(cfg.BIND_DN) /\ ops[1].password = Str(cfg.BIND_PASSWORD)

\* the response item carries both a distinguished name and an attribute set
HasBoth(r) == {"dn", "raw_attributes"} \subseteq DOMAIN r

\* C17: of what the search returned, the items that carry both 'dn' and
\* 'raw_attributes' are the eligible entries and every other item is dropped
\* before counting: none eligible is 'not found', one eligible is one match
\* however many other items came with it, several are ambiguous.
C17_OnlyCompleteItemsCount ==
  (pc \in {"bind", "done"} /\ SearchReturned) =>
     LET returned == ops[2].response
         eligible == SelectSeq(returned, HasBoth)
     IN  /\ c.response = eligible
         /\ eligible = <<>> =>
               result = Raise(LDAPUserLoginError, "LDAP login not found")
         /\ Len(eligible) = 1 =>
               /\ result.msg \notin {"LDAP login not found",
                                     "LDAP login could not be determined."}
               /\ result.exc # "AttributeError"
               /\ Len(identity) = 3 \/ pc = "done"
         /\ Len(eligible) > 1 =>
               result = Raise(LDAPUserLoginError,
                              "LDAP login could not be determined.")

C17_Witness ==
  /\ pc = "done" /\ result.kind = "return"
  /\ Len(ops[2].response) = 2
  /\ ops[2].response[1] = ResultDnOnly
  /\ Len(c.response) = 1 /\ c.response[1] = ops[2].response[2]

\* the frames of all the calls in progress
Frames == {Frame} \cup {parked[k] : k \in 1..Len(parked)}

\* a call that runs alone ends as LoginAlone says
AloneIsLoginAlone ==
  pc = "done" => result = LoginAlone(username_or_email, password, fault)

\* the call ended as it would have alone
EndsAsAlone(fr) ==
  fr.pc = "done" =>
     fr.result = LoginAlone(fr.username_or_email, fr.password, fr.fault)

\* the sessions and the search result the call holds are those of the calls
\* it made itself, for its own arguments
UsesItsOwn(fr) ==
  /\ ~IsNone(fr.c) =>
        /\ fr.ops # <<>> /\ fr.ops[1].conn = "search" /\ fr.ops[1].ok
        /\ fr.c.user = fr.ops[1].user /\ fr.c.password = fr.ops[1].password
  /\ \A i \in 1..Len(fr.ops) :
        fr.ops[i].op = "search" =>
           fr.ops[i].filter = SearchFilter(escape_filter_chars(fr.username_or_email))
  /\ fr.pc = "validate" => fr.c.response = fr.ops[2].response
  /\ (fr.pc \in {"bind", "done"} /\ Len(fr.ops) >= 2 /\ fr.ops[2].ok) =>
        fr.c.response = SelectSeq(fr.ops[2].response, HasBoth)
  /\ \A i \in 1..Len(fr.ops) :
        fr.ops[i].conn = "verification" =>
           /\ fr.ops[i].user = Str(fr.c.response[1].dn)
           /\ fr.ops[i].password = Str(fr.password)
  /\ ~IsNone(fr.verification) =>
        /\ fr.verification.user = Str(fr.c.response[1].dn)
        /\ fr.verification.password = Str(fr.password)

\* C14: with several logins in progress, their steps interleaved in any
\* order, each login ends as it would have ended alone against the same
\* directory, and the sessions and search result it uses are its own.
C14_CallsAreIndependent == \A fr \in Frames : EndsAsAlone(fr) /\ UsesItsOwn(fr)

C14_Witness ==
  /\ pc = "done" /\ result.kind = "return"
  /\ \E k \in 1..Len(parked) :
        /\ parked[k].pc = "validate"
        /\ parked[k].username_or_email # username_or_email
        /\ parked[k].c.response # c.response

====
